---- MODULE Spec2Model ----
(***************************************************************************)
(* Model of tir/technologies/core/base.py (class Base): the element        *)
(* resolution core (web_scrap, element_exists, container ranking, label    *)
(* association, visibility filter) and the assertion bookkeeping.          *)
(*                                                                         *)
(* Python strings are sequences of one-character strings, so that split,   *)
(* strip, lower, int() and the label regular expression are computed the   *)
(* way the code computes them.                                             *)
(***************************************************************************)
EXTENDS Integers, Sequences, FiniteSets, TLC

VARIABLES
    page,       \* the live page: the sections of its body, bottom to top
    snapshot,   \* soup: the page as last captured by get_current_DOM
    pc,         \* "idle", "poll" (the loop of web_scrap), "live", "done"
    call,       \* the call under way or last made (index into Calls)
    now,        \* time.time(), in seconds since the call began
    endtime,    \* web_scrap: endtime
    container,  \* web_scrap: container (node of the snapshot, 0 for None)
    cpath,      \* element_exists: xpath_soup(container)
    result,     \* outcome of the last call
    elements,   \* the BeautifulSoup element list handed to a ranking helper
    rank_out,   \* what the last ranking helper call produced
    errors,     \* self.errors
    verdict     \* outcome of the last AssertTrue / AssertFalse

resVars == <<page, snapshot, pc, call, now, endtime, container, cpath, result>>
rankVars == <<elements, rank_out>>
assertVars == <<errors, verdict>>
vars == <<page, snapshot, pc, call, now, endtime, container, cpath, result,
          elements, rank_out, errors, verdict>>

(***************************************************************************)
(* Bounds of the model.                                                    *)
(***************************************************************************)
MaxElems == 3      \* longest element list handed to zindex_sort / filter
MaxErrors == 3     \* longest self.errors list explored
MaxSections == 2   \* most sections (dialogs) in the body of a page
TickLen == 30      \* seconds between two readings of the clock

Timeout == 60      \* the polling budget of web_scrap, in seconds

(***************************************************************************)
(* Python str helpers.                                                     *)
(***************************************************************************)
Whitespace == {" ", "\n", "\t"}
Digits == <<"0", "1", "2", "3", "4", "5", "6", "7", "8", "9">>
DigitSet == {Digits[i] : i \in 1..10}
DigitVal(c) == (CHOOSE i \in 1..10 : Digits[i] = c) - 1

\* s[i..] starts with p
StartsAt(p, s, i) ==
    /\ i >= 1
    /\ i + Len(p) - 1 <= Len(s)
    /\ \A k \in 1..Len(p) : s[i + k - 1] = p[k]

\* str.find, 1-based; 0 when p does not occur in s
Find(p, s) ==
    IF \E i \in 1..Len(s) : StartsAt(p, s, i)
    THEN CHOOSE i \in 1..Len(s) :
            /\ StartsAt(p, s, i)
            /\ \A j \in 1..(i - 1) : ~StartsAt(p, s, j)
    ELSE 0

\* p in s
Contains(p, s) == Len(p) = 0 \/ Find(p, s) > 0

\* s.split(sep)[0]
SplitFirst(s, sep) ==
    IF Find(sep, s) = 0 THEN s ELSE SubSeq(s, 1, Find(sep, s) - 1)

\* s.split(sep)[1], defined when sep occurs in s
SplitSecond(s, sep) ==
    SplitFirst(SubSeq(s, Find(sep, s) + Len(sep), Len(s)), sep)

RECURSIVE LStrip(_)
LStrip(s) ==
    IF s # <<>> /\ Head(s) \in Whitespace THEN LStrip(Tail(s)) ELSE s

RECURSIVE RStrip(_)
RStrip(s) ==
    IF s # <<>> /\ s[Len(s)] \in Whitespace
    THEN RStrip(SubSeq(s, 1, Len(s) - 1))
    ELSE s

\* str.strip()
Strip(s) == RStrip(LStrip(s))

RECURSIVE DigitsValue(_)
DigitsValue(s) ==
    IF s = <<>> THEN 0
    ELSE 10 * DigitsValue(SubSeq(s, 1, Len(s) - 1)) + DigitVal(s[Len(s)])

AllDigits(s) == s # <<>> /\ \A i \in 1..Len(s) : s[i] \in DigitSet

Ok(v) == [err |-> "", val |-> v]
Raise(e, v) == [err |-> e, val |-> v]

\* int(s): surrounding whitespace, optional sign, decimal digits; anything
\* else raises ValueError
PyInt(s) ==
    LET t == Strip(s) IN
    IF t # <<>> /\ Head(t) \in {"+", "-"}
    THEN IF AllDigits(Tail(t))
         THEN Ok(IF Head(t) = "-" THEN 0 - DigitsValue(Tail(t)) ELSE DigitsValue(Tail(t)))
         ELSE Raise("ValueError", 0)
    ELSE IF AllDigits(t) THEN Ok(DigitsValue(t)) ELSE Raise("ValueError", 0)

(***************************************************************************)
(* Inline styles met on the page.                                          *)
(***************************************************************************)
ZMarker == <<"z", "-", "i", "n", "d", "e", "x", ":">>
StyleZ10 == ZMarker \o <<"1", "0", ";">>
StyleZ20 == ZMarker \o <<"2", "0", ";">>
StyleZAuto == ZMarker \o <<"a", "u", "t", "o", ";">>
StyleZEmpty == ZMarker \o <<";">>
StyleZSpaced == <<"t", "o", "p", ":", "0", ";">> \o ZMarker \o <<" ", "7", " ", ";">>
StyleZNeg == ZMarker \o <<"-", "1", ";">>
StyleZFloat == ZMarker \o <<"1", ".", "5", ";">>
StyleNoZ == <<"t", "o", "p", ":", "0", ";">>

WellFormedStyles == {StyleZ10, StyleZ20, StyleZSpaced, StyleZNeg}
MalformedStyles == {StyleZAuto, StyleZEmpty, StyleZFloat}
AllStyles == WellFormedStyles \cup MalformedStyles \cup {StyleNoZ}

(***************************************************************************)
(* Elements as the ranking helpers see them.  kind tells a Tag from a      *)
(* NavigableString (which has no attrs); has_style is "style" in attrs;    *)
(* live is what the driver answers for the element's xpath: a displayed    *)
(* handle, a hidden handle, or NoSuchElementException ("missing"); id is   *)
(* the identity of the object (its place in the list first handed over).   *)
(***************************************************************************)
Elem(id, kind, has_style, style, live) ==
    [id |-> id, kind |-> kind, has_style |-> has_style, style |-> style, live |-> live]

HasAttrs(element) == element.kind = "Tag"

\* "z-index:" in style, and int(style.split("z-index:")[1].split(";")[0].strip()),
\* tabulated over the styles of the model
HasZMarker == [st \in AllStyles \cup {<<>>} |-> Contains(ZMarker, st)]
ParsedZ ==
    [st \in AllStyles |->
        IF Contains(ZMarker, st)
        THEN PyInt(Strip(SplitFirst(SplitSecond(st, ZMarker), <<";">>)))
        ELSE Ok(0)]

(***************************************************************************)
(* Base.search_zindex                                                      *)
(***************************************************************************)
search_zindex(element) ==
    IF /\ HasAttrs(element)
       /\ element.has_style
       /\ HasZMarker[element.style]
    THEN ParsedZ[element.style]
    ELSE Ok(0)

(***************************************************************************)
(* list.sort(key=..., reverse=...): keys are computed first (an exception  *)
(* in the key function leaves the list as it was), the sort is stable, and *)
(* reverse=True reverses the list before and after an ascending sort.      *)
(***************************************************************************)
Reverse(s) == [i \in 1..Len(s) |-> s[Len(s) + 1 - i]]

Key(x) == search_zindex(x).val

\* x goes after every element whose key is not greater (stable)
RECURSIVE InsertSorted(_, _)
InsertSorted(x, sorted) ==
    IF sorted = <<>> THEN <<x>>
    ELSE IF Key(Head(sorted)) <= Key(x)
         THEN <<Head(sorted)>> \o InsertSorted(x, Tail(sorted))
         ELSE <<x>> \o sorted

RECURSIVE StableSort(_)
StableSort(s) ==
    IF s = <<>> THEN <<>>
    ELSE InsertSorted(s[Len(s)], StableSort(SubSeq(s, 1, Len(s) - 1)))

\* a sort that ignores reverse: what list.sort would do without it
ListSortNoReversal(s, reverse) ==
    IF reverse THEN Reverse(StableSort(s)) ELSE StableSort(s)

ListSort(s, reverse) ==
    IF reverse THEN Reverse(StableSort(Reverse(s))) ELSE StableSort(s)

(***************************************************************************)
(* Base.zindex_sort: the sorted list, or the ValueError of search_zindex.  *)
(***************************************************************************)
zindex_sort(elems, reverse) ==
    IF \E i \in 1..Len(elems) : search_zindex(elems[i]).err # ""
    THEN Raise("ValueError", elems)
    ELSE Ok(ListSort(elems, reverse))

(***************************************************************************)
(* Base.filter_displayed_elements                                          *)
(***************************************************************************)
IsDisplayed(x) == x.live = "displayed"

\* ranking alone, hidden elements kept: the filter without its is_displayed() test
filter_displayed_elements_unfiltered(elems, reverse) ==
    IF \E i \in 1..Len(elems) : elems[i].live = "missing"
    THEN Raise("NoSuchElementException", <<>>)
    ELSE zindex_sort(elems, reverse)

filter_displayed_elements(elems, reverse) ==
    \* 2 - every element is resolved to a selenium object, eagerly
    IF \E i \in 1..Len(elems) : elems[i].live = "missing"
    THEN Raise("NoSuchElementException", <<>>)
    \* 4, 5 - keep the displayed ones by index; 6 - sort
    ELSE zindex_sort(SelectSeq(elems, IsDisplayed), reverse)

(***************************************************************************)
(* The page.  A document is the sequence of its nodes in document order;   *)
(* parent is the index of the parent node, 0 for the BeautifulSoup object  *)
(* itself.  shown is what is_displayed() answers on the live page.         *)
(***************************************************************************)
Tag(name, cls, has_style, style, parent, shown) ==
    [kind |-> "Tag", name |-> name, cls |-> cls, has_style |-> has_style,
     style |-> style, string |-> <<>>, parent |-> parent, shown |-> shown]

NavigableString(string, parent) ==
    [kind |-> "NavigableString", name |-> "None", cls |-> "", has_style |-> FALSE,
     style |-> <<>>, string |-> string, parent |-> parent, shown |-> TRUE]

TxtName == <<"N", "a", "m", "e", " ">>
TxtNameStar == <<"N", "a", "m", "e", "*", " ", "\n">>
TxtNameColon == <<"N", "a", "m", "e", ":">>
TxtUpperOk == <<"N", "A", "M", "E", " ", "o", "k">>
TxtOther == <<"o", "k">>
TxtLower == <<"n", "a", "m", "e">>

\* The sections a body can hold, each in document order; parent 0 stands for
\* the body, k > 0 for the k-th node of the section.
\* a dialog, z-index 10: <div><div>Name </div><input></div>
SecLabel ==
    <<Tag("div", "tmodaldialog", TRUE, StyleZ10, 0, TRUE),
      Tag("div", "", FALSE, <<>>, 1, TRUE),
      NavigableString(TxtName, 2),
      Tag("input", "", FALSE, <<>>, 1, TRUE)>>

\* a dialog, z-index 20: three spans (two of class tsay) and an input
SecSay ==
    <<Tag("div", "tmodaldialog", TRUE, StyleZ20, 0, TRUE),
      Tag("span", "tsay", FALSE, <<>>, 1, TRUE),
      NavigableString(TxtUpperOk, 2),
      Tag("span", "tsay", FALSE, <<>>, 1, TRUE),
      NavigableString(TxtOther, 4),
      Tag("span", "", FALSE, <<>>, 1, TRUE),
      NavigableString(TxtLower, 6),
      Tag("input", "", FALSE, <<>>, 1, TRUE)>>

\* a hidden dialog, z-index 20: <div><label>Name* </label></div><span/><input>
SecStar ==
    <<Tag("div", "ui-dialog", TRUE, StyleZ20, 0, FALSE),
      Tag("div", "", FALSE, <<>>, 1, FALSE),
      Tag("label", "", FALSE, <<>>, 2, FALSE),
      NavigableString(TxtNameStar, 3),
      Tag("span", "", FALSE, <<>>, 1, FALSE),
      Tag("input", "", FALSE, <<>>, 1, FALSE)>>

\* a dialog without inline style: <div>Name:</div><input>
SecColon ==
    <<Tag("div", "tmodaldialog", FALSE, <<>>, 0, TRUE),
      Tag("div", "", FALSE, <<>>, 1, TRUE),
      NavigableString(TxtNameColon, 2),
      Tag("input", "", FALSE, <<>>, 1, TRUE)>>

\* a dialog styled "z-index:auto;": <div>Name <input></div>
SecAuto ==
    <<Tag("div", "ui-dialog", TRUE, StyleZAuto, 0, TRUE),
      Tag("div", "", FALSE, <<>>, 1, TRUE),
      NavigableString(TxtName, 2),
      Tag("input", "", FALSE, <<>>, 2, TRUE)>>

\* no dialog: a label text and an input directly in the body
SecLoose ==
    <<NavigableString(TxtName, 0),
      Tag("input", "", FALSE, <<>>, 0, TRUE)>>

Sections == <<SecLabel, SecSay, SecStar, SecColon, SecAuto, SecLoose>>
NSections == Len(Sections)

HtmlIndex == 1
BodyIndex == 2

\* the nodes of section sec placed after `offset` nodes of the document
Place(sec, offset) ==
    [i \in 1..Len(sec) |->
        [sec[i] EXCEPT !.parent = IF @ = 0 THEN BodyIndex ELSE offset + @]]

RECURSIVE Build(_, _)
Build(doc, secs) ==
    IF secs = <<>> THEN doc
    ELSE Build(doc \o Place(Sections[Head(secs)], Len(doc)), Tail(secs))

\* <html><body> ...sections... </body></html>
MkPage(secs) ==
    Build(<<Tag("html", "", FALSE, <<>>, 0, TRUE),
            Tag("body", "", FALSE, <<>>, HtmlIndex, TRUE)>>, secs)

\* a page is named by the sections of its body, bottom to top
PageKeys == UNION {[1..n -> 1..NSections] : n \in 0..MaxSections}
Doc == [k \in PageKeys |-> MkPage(k)]

(***************************************************************************)
(* BeautifulSoup navigation.                                               *)
(***************************************************************************)
RECURSIVE IsDescendant(_, _, _)
\* n lies strictly below anc (anc = 0: the BeautifulSoup object)
IsDescendant(doc, n, anc) ==
    IF n = 0 THEN FALSE
    ELSE IF doc[n].parent = anc THEN TRUE
    ELSE IsDescendant(doc, doc[n].parent, anc)

\* the node indexes of the document, in document order
Indexes(doc) == [i \in 1..Len(doc) |-> i]

Descendants(doc, root) ==
    SelectSeq(Indexes(doc), LAMBDA n : IsDescendant(doc, n, root))

RECURSIVE Concat(_)
Concat(ss) == IF ss = <<>> THEN <<>> ELSE Head(ss) \o Concat(Tail(ss))

\* Tag.text: the strings below the node, concatenated
TextOf(doc, n) ==
    LET strs == SelectSeq(Indexes(doc),
                    LAMBDA m : doc[m].kind = "NavigableString" /\ IsDescendant(doc, m, n))
    IN Concat([i \in 1..Len(strs) |-> doc[strs[i]].string])

LowerChar(c) ==
    CASE c = "N" -> "n" [] c = "A" -> "a" [] c = "M" -> "m" [] c = "E" -> "e"
      [] c = "O" -> "o" [] c = "K" -> "k" [] OTHER -> c

\* str.lower()
Lower(s) == [i \in 1..Len(s) |-> LowerChar(s[i])]

(***************************************************************************)
(* CSS selectors known to the model; any other selector text is a syntax   *)
(* error of the selector engine.                                           *)
(***************************************************************************)
ValidSelectors == {"body", "div", "input", ".tsay", ".tmodaldialog,.ui-dialog", "div > *"}

Matches(doc, n, sel) ==
    /\ doc[n].kind = "Tag"
    /\ CASE sel = "body" -> doc[n].name = "body"
         [] sel = "div" -> doc[n].name = "div"
         [] sel = "input" -> doc[n].name = "input"
         [] sel = ".tsay" -> doc[n].cls = "tsay"
         [] sel = ".tmodaldialog,.ui-dialog" -> doc[n].cls \in {"tmodaldialog", "ui-dialog"}
         [] sel = "div > *" -> doc[n].parent # 0 /\ doc[doc[n].parent].name = "div"
         [] OTHER -> FALSE

\* Tag.select(sel): the matching nodes below root, in document order
Select(doc, root, sel) ==
    IF sel \notin ValidSelectors
    THEN Raise("SelectorSyntaxError", <<>>)
    ELSE Ok(SelectSeq(Indexes(doc),
                LAMBDA n : IsDescendant(doc, n, root) /\ Matches(doc, n, sel)))

(***************************************************************************)
(* Container Resolver: soup.select(container_selector), ranked by          *)
(* zindex_sort(reverse=True), first or None (0).                           *)
(***************************************************************************)
base_container == "body"

AsElem(doc, n) ==
    Elem(n, doc[n].kind, doc[n].has_style, doc[n].style,
         IF doc[n].shown THEN "displayed" ELSE "hidden")

ContainerSelector(main_container) ==
    IF main_container # "None" THEN main_container ELSE base_container

\* the candidate ranked last instead of first: resolution without the topmost rule
ResolveContainerLast(doc, container_selector) ==
    LET sel == Select(doc, 0, container_selector) IN
    IF sel.err # "" THEN Raise(sel.err, 0)
    ELSE LET ranked == zindex_sort([i \in 1..Len(sel.val) |-> AsElem(doc, sel.val[i])], TRUE)
         IN  IF ranked.err # "" THEN Raise(ranked.err, 0)
             ELSE Ok(IF ranked.val = <<>> THEN 0 ELSE ranked.val[Len(ranked.val)].id)

ResolveContainer(doc, container_selector) ==
    LET sel == Select(doc, 0, container_selector) IN
    IF sel.err # "" THEN Raise(sel.err, 0)
    ELSE LET ranked == zindex_sort([i \in 1..Len(sel.val) |-> AsElem(doc, sel.val[i])], TRUE)
         IN  IF ranked.err # "" THEN Raise(ranked.err, 0)
             ELSE Ok(IF ranked.val = <<>> THEN 0 ELSE ranked.val[1].id)

(***************************************************************************)
(* Base.find_first_div_parent and Base.find_label_element                  *)
(***************************************************************************)
NoneRef == 0 - 1    \* Python None; 0 is the BeautifulSoup object

\* re.compile("^" + re.escape(label_text) + r"\*?\s+$").search(s)
LabelMatches(label_text, s) ==
    /\ StartsAt(label_text, s, 1)
    /\ LET rest == SubSeq(s, Len(label_text) + 1, Len(s))
           ws == IF rest # <<>> /\ Head(rest) = "*" THEN Tail(rest) ELSE rest
       IN  /\ ws # <<>>
           /\ \A i \in 1..Len(ws) : ws[i] \in Whitespace

\* hasattr(current, "name"): a Tag, a NavigableString (its name is None) and
\* the BeautifulSoup object have one, None has not
HasName(cur) == cur # NoneRef

\* a climb that stops where it starts, as if a text node were a block
find_first_div_parent_no_climb(doc, current) == current

RECURSIVE find_first_div_parent(_, _)
find_first_div_parent(doc, current) ==
    IF HasName(current) /\ ~(current # 0 /\ doc[current].name = "div")
    THEN find_first_div_parent(doc, IF current = 0 THEN NoneRef ELSE doc[current].parent)
    ELSE current

\* element.find_next_sibling("input"): the first later sibling that is an
\* input Tag, or NoneRef
find_next_sibling_input(doc, element) ==
    LET later == SelectSeq(Indexes(doc),
                    LAMBDA m : /\ m > element
                               /\ doc[m].parent = doc[element].parent
                               /\ doc[m].kind = "Tag"
                               /\ doc[m].name = "input")
    IN IF later = <<>> THEN NoneRef ELSE later[1]

LabelTexts(doc, cont, label_text) ==
    SelectSeq(Indexes(doc),
        LAMBDA m : /\ doc[m].kind = "NavigableString"
                   /\ IsDescendant(doc, m, cont)
                   /\ LabelMatches(label_text, doc[m].string))

\* a label search over the whole document instead of the container
find_label_element_anywhere(doc, label_text, cont) ==
    LET found == LabelTexts(doc, 0, label_text)
        element == IF found = <<>> THEN NoneRef ELSE find_first_div_parent(doc, found[1])
    IN  IF element = NoneRef THEN <<>>
        ELSE IF find_next_sibling_input(doc, element) # NoneRef
             THEN <<find_next_sibling_input(doc, element)>>
             ELSE <<>>

find_label_element(doc, label_text, cont) ==
    LET found == LabelTexts(doc, cont, label_text)
        element == IF found = <<>> THEN NoneRef ELSE find_first_div_parent(doc, found[1])
    IN  IF element = NoneRef THEN <<>>
        ELSE IF find_next_sibling_input(doc, element) # NoneRef
             THEN <<find_next_sibling_input(doc, element)>>
             ELSE <<>>

(***************************************************************************)
(* The calls made on the Base object: keyword arguments of web_scrap and   *)
(* element_exists.  main_container "None" is Python None.                  *)
(***************************************************************************)
DialogSelector == ".tmodaldialog,.ui-dialog"

Call(fn, scrap_type, term, optional_term, label, main_container, position) ==
    [fn |-> fn, scrap_type |-> scrap_type, term |-> term,
     optional_term |-> optional_term, label |-> label,
     main_container |-> main_container, position |-> position]

\* the text of a search term, as characters
Chars(term) ==
    CASE term = "Name" -> <<"N", "a", "m", "e">>
      [] term = "ok" -> <<"o", "k">>
      [] OTHER -> <<>>

Calls ==
    <<Call("web_scrap", "CSS_SELECTOR", "input", "None", FALSE, "None", 0),
      Call("web_scrap", "CSS_SELECTOR", "input", "None", FALSE, DialogSelector, 0),
      Call("web_scrap", "CSS_SELECTOR", "[[", "None", FALSE, DialogSelector, 0),
      Call("web_scrap", "TEXT", "Name", "None", TRUE, "None", 0),
      Call("web_scrap", "TEXT", "Name", "None", TRUE, DialogSelector, 0),
      Call("web_scrap", "TEXT", "ok", "None", FALSE, DialogSelector, 0),
      Call("web_scrap", "MIXED", "Name", ".tsay", FALSE, DialogSelector, 0),
      Call("web_scrap", "MIXED", "Name", "input", FALSE, "None", 0),
      Call("web_scrap", "MIXED", "Name", "None", FALSE, DialogSelector, 0),
      Call("web_scrap", "MIXED", "Name", "[[", FALSE, DialogSelector, 0),
      Call("web_scrap", "SCRIPT", "return inputs", "None", FALSE, DialogSelector, 0),
      Call("web_scrap", "XPATH", "//input", "None", FALSE, DialogSelector, 0),
      Call("element_exists", "CSS_SELECTOR", "input", "", FALSE, DialogSelector, 0 - 1),
      Call("element_exists", "CSS_SELECTOR", "input", "", FALSE, DialogSelector, 0),
      Call("element_exists", "CSS_SELECTOR", "input", "", FALSE, DialogSelector, 2),
      Call("element_exists", "CSS_SELECTOR", ".tsay", "", FALSE, DialogSelector, 1),
      Call("element_exists", "CSS_SELECTOR", "[[", "", FALSE, DialogSelector, 0),
      Call("element_exists", "XPATH", "//input", "", FALSE, DialogSelector, 0),
      Call("element_exists", "XPATH", "//input", "", FALSE, DialogSelector, 2),
      Call("element_exists", "XPATH", "//[", "", FALSE, DialogSelector, 0),
      Call("element_exists", "SCRIPT", "return inputs", "", FALSE, DialogSelector, 0),
      Call("element_exists", "SCRIPT", "return inputs", "", FALSE, DialogSelector, 2),
      Call("element_exists", "TEXT", "Name", "", FALSE, DialogSelector, 0),
      Call("element_exists", "TEXT", "ok", "", FALSE, DialogSelector, 0 - 1),
      Call("element_exists", "MIXED", "Name", ".tsay", FALSE, DialogSelector, 0),
      Call("element_exists", "MIXED", "Name", ".tsay", FALSE, DialogSelector, 2),
      Call("element_exists", "MIXED", "Name", "", FALSE, DialogSelector, 0)>>

(***************************************************************************)
(* driver.execute_script(term): the script throws, or returns null, true   *)
(* or the list of the input elements of the live page.                     *)
(***************************************************************************)
ScriptOutcomes == {"error", "null", "true", "list"}

ScriptList(live, outcome) ==
    IF outcome = "list" THEN Select(live, 0, "input").val ELSE <<>>

\* term.lower() in x.text.lower()
TextContains(doc, term, x) == Contains(Lower(Chars(term)), Lower(TextOf(doc, x)))

(***************************************************************************)
(* Base.web_scrap after the polling loop (lines 643-656): the strategy run *)
(* inside the container of the snapshot.                                   *)
(***************************************************************************)
\* the strategies with MIXED reduced to its selector, the text test dropped
LocateMixedSelectorOnly(doc, cont, c, outcome) ==
    IF c.scrap_type = "TEXT"
    THEN IF c.label
         THEN Ok(find_label_element(doc, Chars(c.term), cont))
         ELSE Ok(SelectSeq(Select(doc, cont, "div > *").val,
                    LAMBDA x : TextContains(doc, c.term, x)))
    ELSE IF c.scrap_type = "CSS_SELECTOR"
    THEN Select(doc, cont, c.term)
    ELSE IF c.scrap_type = "MIXED" /\ c.optional_term # "None"
    THEN Select(doc, cont, c.optional_term)
    ELSE IF c.scrap_type = "SCRIPT"
    THEN IF outcome = "error" THEN Raise("WebDriverException", <<>>)
         ELSE Ok(ScriptList(doc, outcome))
    ELSE Ok(<<>>)

Locate(doc, cont, c, outcome) ==
    IF c.scrap_type = "TEXT"
    THEN IF c.label
         THEN Ok(find_label_element(doc, Chars(c.term), cont))
         ELSE Ok(SelectSeq(Select(doc, cont, "div > *").val,
                    LAMBDA x : TextContains(doc, c.term, x)))
    ELSE IF c.scrap_type = "CSS_SELECTOR"
    THEN Select(doc, cont, c.term)
    ELSE IF c.scrap_type = "MIXED" /\ c.optional_term # "None"
    THEN LET sel == Select(doc, cont, c.optional_term) IN
         IF sel.err # "" THEN sel
         ELSE Ok(SelectSeq(sel.val, LAMBDA x : TextContains(doc, c.term, x)))
    ELSE IF c.scrap_type = "SCRIPT"
    THEN IF outcome = "error" THEN Raise("WebDriverException", <<>>)
         ELSE Ok(ScriptList(doc, outcome))
    ELSE Ok(<<>>)

(***************************************************************************)
(* xpath_soup(element) and driver.find_element_by_xpath: the chain of      *)
(* <<tag, position among the siblings of that tag>> from the root.         *)
(***************************************************************************)
SameNameBefore(doc, n) ==
    Cardinality({m \in 1..(n - 1) :
        /\ doc[m].parent = doc[n].parent
        /\ doc[m].kind = "Tag"
        /\ doc[m].name = doc[n].name})

RECURSIVE xpath_soup(_, _)
xpath_soup(doc, n) ==
    IF n = 0 THEN <<>>
    ELSE Append(xpath_soup(doc, doc[n].parent), <<doc[n].name, SameNameBefore(doc, n) + 1>>)

RECURSIVE ResolveFrom(_, _, _)
\* the node the rest of the path leads to from node `at`, 0 when there is none
ResolveFrom(live, at, path) ==
    IF path = <<>> THEN at
    ELSE LET step == Head(path)
             kids == SelectSeq(Indexes(live),
                        LAMBDA m : /\ live[m].parent = at
                                   /\ live[m].kind = "Tag"
                                   /\ live[m].name = step[1])
         IN  IF Len(kids) < step[2] THEN 0
             ELSE ResolveFrom(live, kids[step[2]], Tail(path))

find_element_by_xpath(live, path) == ResolveFrom(live, 0, path)

\* driver.find_elements(by, selector): over the whole live document
find_elements(live, scrap_type, selector) ==
    IF scrap_type = "CSS_SELECTOR"
    THEN IF selector \in ValidSelectors THEN Select(live, 0, selector)
         ELSE Raise("InvalidSelectorException", <<>>)
    ELSE IF selector = "//input" THEN Select(live, 0, "input")
         ELSE Raise("InvalidSelectorException", <<>>)

\* lines 263-266
PositionTest(n, position) ==
    IF position = 0 THEN n > 0 ELSE n >= position

(***************************************************************************)
(* Outcome of a call.  kind: "return" (web_scrap returned nodes),          *)
(* "exists" (element_exists returned flag; count is the number of matches  *)
(* it found), "fatal" (log_error: the test ends with an assertion failure  *)
(* carrying msg), "raise" (an exception left element_exists).              *)
(***************************************************************************)
ContainerNotFound == "Couldn't find container"

NoResult ==
    [kind |-> "none", nodes |-> <<>>, count |-> 0, flag |-> FALSE, msg |-> "", script |-> ""]
Returned(nodes, script) ==
    [kind |-> "return", nodes |-> nodes, count |-> Len(nodes), flag |-> FALSE,
     msg |-> "", script |-> script]
Existence(flag, count, script) ==
    [kind |-> "exists", nodes |-> <<>>, count |-> count, flag |-> flag,
     msg |-> "", script |-> script]
\* Base.log_error: assertTrue(False, message)
log_error(message, script) ==
    [kind |-> "fatal", nodes |-> <<>>, count |-> 0, flag |-> FALSE,
     msg |-> message, script |-> script]
Raised(exception, script) ==
    [kind |-> "raise", nodes |-> <<>>, count |-> 0, flag |-> FALSE,
     msg |-> exception, script |-> script]

NoSnapshot == <<0>>
NoRank == [op |-> "none", arg |-> <<>>, reverse |-> FALSE, err |-> "", val |-> <<>>, z |-> 0]
NoVerdict == [kind |-> "none", passed |-> FALSE, recorded |-> 0]

UsesWebScrap(c) ==
    c.fn = "web_scrap" \/ (c.fn = "element_exists" /\ c.scrap_type \in {"TEXT", "MIXED"})

UsedScript(c, outcome) == IF c.scrap_type = "SCRIPT" THEN outcome ELSE ""

\* the try/except of web_scrap around a located list, and the use
\* element_exists makes of it (lines 262-266)
\* an except clause that returns the empty list instead of calling log_error
AfterLocateSwallow(c, loc, outcome) ==
    IF loc.err # "" THEN Returned(<<>>, UsedScript(c, outcome))
    ELSE IF c.fn = "web_scrap" THEN Returned(loc.val, UsedScript(c, outcome))
    ELSE Existence(PositionTest(Len(loc.val), c.position), Len(loc.val), "")

AfterLocate(c, loc, outcome) ==
    IF loc.err # "" THEN log_error(loc.err, UsedScript(c, outcome))
    ELSE IF c.fn = "web_scrap" THEN Returned(loc.val, UsedScript(c, outcome))
    ELSE Existence(PositionTest(Len(loc.val), c.position), Len(loc.val), "")

(***************************************************************************)
(* Actions of the resolution core (specification Spec).                    *)
(***************************************************************************)
\* web_scrap is entered (directly, or from element_exists for TEXT / MIXED):
\* endtime = time.time() + 60, container = None.  The clock is read
\* relative to the start of the call.
WebScrapBegin ==
    \E c \in 1..Len(Calls) :
        /\ pc = "idle"
        /\ UsesWebScrap(Calls[c])
        /\ pc' = "poll"
        /\ call' = c
        /\ now' = 0
        /\ endtime' = 0 + Timeout
        /\ container' = 0
        /\ snapshot' = NoSnapshot
        /\ cpath' = <<>>
        /\ result' = NoResult
        /\ UNCHANGED <<page, rankVars, assertVars>>

\* one iteration of the polling loop (lines 625-638) and, when it found a
\* container, the rest of web_scrap (lines 640-658)
WebScrapIterate ==
    \E outcome \in ScriptOutcomes :
        /\ pc = "poll"
        /\ now < endtime /\ container = 0
        /\ LET c == Calls[call]
               soup == Doc[page]
               r == ResolveContainer(soup, ContainerSelector(c.main_container))
           IN  IF r.err # ""
               THEN /\ result' = log_error(r.err, "")
                    /\ pc' = "done"
                    /\ snapshot' = NoSnapshot
                    /\ container' = 0
               ELSE IF r.val = 0
               THEN /\ snapshot' = page
                    /\ UNCHANGED <<result, pc, container>>
               ELSE /\ snapshot' = page
                    /\ container' = r.val
                    /\ result' = AfterLocate(c, Locate(soup, r.val, c, outcome), outcome)
                    /\ pc' = "done"
        /\ UNCHANGED <<page, call, now, endtime, cpath, rankVars, assertVars>>

\* the failure taken without waiting for the deadline
WebScrapGiveUp ==
    /\ pc = "poll"
    /\ container = 0
    /\ result' = log_error(ContainerNotFound, "")
    /\ pc' = "done"
    /\ snapshot' = NoSnapshot
    /\ UNCHANGED <<page, call, now, endtime, container, cpath, rankVars, assertVars>>

\* the loop ends on the deadline with no container (lines 625, 640-641, 657-658)
WebScrapTimeout ==
    /\ pc = "poll"
    /\ ~(now < endtime) /\ container = 0
    /\ result' = log_error(ContainerNotFound, "")
    /\ pc' = "done"
    /\ snapshot' = NoSnapshot
    /\ UNCHANGED <<page, call, now, endtime, container, cpath, rankVars, assertVars>>

\* time.time() advances while the loop runs
Tick ==
    /\ pc = "poll"
    /\ now < endtime
    /\ now' = now + TickLen
    /\ UNCHANGED <<page, snapshot, pc, call, endtime, container, cpath, result,
                   rankVars, assertVars>>

\* the application renders while a call is under way: a section opens on
\* top of the body, or the topmost one closes
PageMutates ==
    /\ pc \in {"poll", "live"}
    /\ \/ \E k \in 1..NSections :
            /\ Len(page) < MaxSections
            /\ page' = Append(page, k)
       \/ /\ page # <<>>
          /\ page' = SubSeq(page, 1, Len(page) - 1)
    /\ UNCHANGED <<snapshot, pc, call, now, endtime, container, cpath, result,
                   rankVars, assertVars>>

\* element_exists, SCRIPT (lines 232-233)
ExistsScript ==
    \E c \in 1..Len(Calls), outcome \in ScriptOutcomes :
        /\ pc = "idle"
        /\ Calls[c].fn = "element_exists" /\ Calls[c].scrap_type = "SCRIPT"
        /\ call' = c
        /\ result' =
              IF outcome = "error" THEN Raised("WebDriverException", outcome)
              ELSE IF outcome = "list"
              THEN Existence(ScriptList(Doc[page], outcome) # <<>>,
                             Len(ScriptList(Doc[page], outcome)), outcome)
              ELSE Existence(outcome = "true", IF outcome = "true" THEN 1 ELSE 0, outcome)
        /\ snapshot' = NoSnapshot
        /\ container' = 0
        /\ cpath' = <<>>
        /\ pc' = "done"
        /\ UNCHANGED <<page, now, endtime, rankVars, assertVars>>

\* element_exists entering the polling loop for CSS_SELECTOR / XPATH as it does
\* for TEXT / MIXED
ExistsSnapshotPolls ==
    \E c \in 1..Len(Calls) :
        /\ pc = "idle"
        /\ Calls[c].fn = "element_exists"
        /\ Calls[c].scrap_type \in {"CSS_SELECTOR", "XPATH"}
        /\ pc' = "poll"
        /\ call' = c
        /\ now' = 0
        /\ endtime' = 0 + Timeout
        /\ container' = 0
        /\ snapshot' = NoSnapshot
        /\ cpath' = <<>>
        /\ result' = NoResult
        /\ UNCHANGED <<page, rankVars, assertVars>>

\* element_exists, CSS_SELECTOR / XPATH, up to the choice of the container
\* in the snapshot (lines 234-248)
ExistsSnapshot ==
    \E c \in 1..Len(Calls) :
        /\ pc = "idle"
        /\ Calls[c].fn = "element_exists"
        /\ Calls[c].scrap_type \in {"CSS_SELECTOR", "XPATH"}
        /\ call' = c
        /\ snapshot' = NoSnapshot
        /\ container' = 0
        /\ LET soup == Doc[page]
               r == ResolveContainer(soup, ContainerSelector(Calls[c].main_container))
           IN  IF r.err # ""
               THEN /\ result' = Raised(r.err, "")
                    /\ cpath' = <<>>
                    /\ pc' = "done"
               ELSE IF r.val = 0
               THEN /\ result' = Existence(FALSE, 0, "")
                    /\ cpath' = <<>>
                    /\ pc' = "done"
               ELSE /\ result' = NoResult
                    /\ cpath' = xpath_soup(soup, r.val)
                    /\ pc' = "live"
        /\ UNCHANGED <<page, now, endtime, rankVars, assertVars>>

\* element_exists, CSS_SELECTOR / XPATH, on the live page (lines 250-266)
ExistsLive ==
    /\ pc = "live"
    /\ LET c == Calls[call]
           live == Doc[page]
           found == find_elements(live, c.scrap_type, c.term)
       IN  result' =
              IF find_element_by_xpath(live, cpath) = 0 THEN Existence(FALSE, 0, "")
              ELSE IF found.err # "" THEN Raised(found.err, "")
              ELSE Existence(PositionTest(Len(found.val), c.position), Len(found.val), "")
    /\ pc' = "done"
    /\ UNCHANGED <<page, snapshot, call, now, endtime, container, cpath,
                   rankVars, assertVars>>

\* the call is over: its result goes to the caller, its locals are dropped
Return ==
    /\ pc = "done"
    /\ pc' = "idle"
    /\ call' = 0
    /\ now' = 0
    /\ endtime' = 0
    /\ container' = 0
    /\ snapshot' = NoSnapshot
    /\ cpath' = <<>>
    /\ result' = NoResult
    /\ UNCHANGED <<page, rankVars, assertVars>>

IdleCore ==
    /\ page = <<>>
    /\ snapshot = NoSnapshot
    /\ pc = "idle"
    /\ call = 0
    /\ now = 0
    /\ endtime = 0
    /\ container = 0
    /\ cpath = <<>>
    /\ result = NoResult

Init ==
    /\ page \in PageKeys
    /\ snapshot = NoSnapshot
    /\ pc = "idle"
    /\ call = 0
    /\ now = 0
    /\ endtime = 0
    /\ container = 0
    /\ cpath = <<>>
    /\ result = NoResult
    /\ elements = <<>>
    /\ rank_out = NoRank
    /\ errors = <<>>
    /\ verdict = NoVerdict

Next ==
    \/ WebScrapBegin
    \/ WebScrapIterate
    \/ WebScrapTimeout
    \/ Tick
    \/ PageMutates
    \/ ExistsScript
    \/ ExistsSnapshot
    \/ ExistsLive
    \/ Return

Spec == Init /\ [][Next]_vars

(***************************************************************************)
(* Properties of the resolution core.                                      *)
(***************************************************************************)
TheCall == Calls[call]
Soup == Doc[snapshot]
Max(a, b) == IF a >= b THEN a ELSE b
SetMin(S) == CHOOSE x \in S : \A y \in S : x <= y
SetMax(S) == CHOOSE x \in S : \A y \in S : x >= y

\* C1: for every strategy and every integer position, element_exists
\* returns true if and only if the number of matches found is at least
\* max(position, 1).
C1_ExistsIffEnoughMatches ==
    (pc = "done" /\ result.kind = "exists") =>
        (result.flag <=> result.count >= Max(TheCall.position, 1))

\* the dialogs of a document and their z-index
DialogsOf(doc) == Select(doc, 0, DialogSelector).val
DialogZ(doc, d) == search_zindex(AsElem(doc, d))
TwoDialogs1020(doc) ==
    /\ Len(DialogsOf(doc)) = 2
    /\ \A i \in 1..2 : DialogZ(doc, DialogsOf(doc)[i]).err = ""
    /\ {DialogZ(doc, DialogsOf(doc)[i]).val : i \in 1..2} = {10, 20}
DialogWithZ(doc, z) ==
    CHOOSE d \in {DialogsOf(doc)[i] : i \in 1..2} : DialogZ(doc, d).val = z

HasCandidate(doc, c) ==
    \E n \in 1..Len(doc) : Matches(doc, n, ContainerSelector(c.main_container))

\* C3: every iteration of the polling loop captures the page afresh and
\* resolves the container in it; an iteration whose snapshot holds a
\* matching container ends the loop at that snapshot and the call does not
\* fail for want of a container; the call fails with ContainerNotFound only
\* once the 60 s deadline has passed, and always does when the deadline
\* passes with no container found.
C3_PollingUntilDeadline ==
    [][ /\ (pc = "poll" /\ pc' = "done" /\ result'.kind \in {"return", "exists"}) =>
            /\ now < endtime
            /\ snapshot' = page
            /\ container' # 0
            /\ Matches(Doc[page], container', ContainerSelector(TheCall.main_container))
        /\ (pc = "poll" /\ now < endtime /\ page' = page /\ now' = now
                /\ HasCandidate(Doc[page], TheCall)) =>
            /\ pc' = "done"
            /\ result'.msg # ContainerNotFound
        /\ (pc = "poll" /\ pc' = "poll" /\ page' = page /\ now' = now) =>
            /\ snapshot' = page
            /\ container' = 0
            /\ ~HasCandidate(Doc[page], TheCall)
        /\ (pc = "poll" /\ pc' = "done" /\ result'.msg = ContainerNotFound) =>
            /\ result'.kind = "fatal"
            /\ now >= endtime
            /\ endtime = Timeout
            /\ container = 0
        /\ (pc = "poll" /\ now >= endtime /\ pc' # "poll") =>
            /\ result'.kind = "fatal"
            /\ result'.msg = ContainerNotFound
      ]_vars

\* C3 witness: the container was missing from the first snapshots and the
\* call succeeded once it appeared, before the deadline.
C3_Witness ==
    /\ pc = "done"
    /\ result.kind = "return"
    /\ now > 0 /\ now < endtime
    /\ TheCall.main_container = DialogSelector
    /\ container # 0

\* the label texts the statement of C7 takes to match the term
ClaimedLabel(term, s) ==
    Strip(s) \in {term, term \o <<":">>, term \o <<"*">>}

\* the label texts that match: the term, an optional "*", then one or more
\* whitespace characters up to the end
TrailingSpaceLabel(term, s) ==
    \E k \in 1..Len(s) :
        /\ \A i \in (Len(s) - k + 1)..Len(s) : s[i] \in Whitespace
        /\ SubSeq(s, 1, Len(s) - k) \in {term, term \o <<"*">>}

\* the input that follows, as a sibling, the nearest div ancestor of the
\* first text node of the container satisfying IsLabel; <<>> when a step
\* of that chain is missing
InputAfterLabelBlock(doc, cont, IsLabel(_)) ==
    LET labels == {m \in 1..Len(doc) :
                      /\ doc[m].kind = "NavigableString"
                      /\ IsDescendant(doc, m, cont)
                      /\ IsLabel(doc[m].string)}
    IN  IF labels = {} THEN <<>>
        ELSE LET divs == {a \in 1..Len(doc) :
                             /\ IsDescendant(doc, SetMin(labels), a)
                             /\ doc[a].name = "div"}
             IN  IF divs = {} THEN <<>>
                 ELSE LET inputs == {m \in 1..Len(doc) :
                                        /\ m > SetMax(divs)
                                        /\ doc[m].parent = doc[SetMax(divs)].parent
                                        /\ doc[m].name = "input"}
                      IN IF inputs = {} THEN <<>> ELSE <<SetMin(inputs)>>

LabelCallReturned ==
    /\ pc = "done"
    /\ TheCall.fn = "web_scrap"
    /\ TheCall.scrap_type = "TEXT"
    /\ TheCall.label
    /\ result.kind = "return"

\* C7 as stated: with the label text "Name:" (or "Name*") in a block of the
\* container followed by an input, web_scrap("Name", label=True) returns
\* exactly that input, and the empty sequence when no input follows.
C7_LabelWithColonMatches ==
    LabelCallReturned =>
        result.nodes = InputAfterLabelBlock(Soup, container,
                            LAMBDA s : ClaimedLabel(Chars(TheCall.term), s))

\* C7 amended: web_scrap("Name", label=True) matches the text nodes of the
\* container that read "Name", an optional "*" and then at least one
\* whitespace character ("Name:" and a bare "Name*" do not match); it
\* returns exactly the first input that follows, as a sibling, the nearest
\* div ancestor of the first such text node, and the empty sequence when no
\* text matches, no div encloses it or no input follows the block.
C7_LabelWithTrailingSpaceMatches ==
    LabelCallReturned =>
        result.nodes = InputAfterLabelBlock(Soup, container,
                            LAMBDA s : TrailingSpaceLabel(Chars(TheCall.term), s))

\* C7 witness: the label "Name* " of the chosen dialog leads to the input
\* after its block, past a sibling that is no input.
C7_Witness ==
    /\ LabelCallReturned
    /\ TheCall.main_container = DialogSelector
    /\ Len(result.nodes) = 1
    /\ Soup[result.nodes[1]].name = "input"
    /\ \E m \in 1..Len(Soup) :
          /\ IsDescendant(Soup, m, container)
          /\ Soup[m].string = TxtNameStar

\* term occurs in text, letter case aside
ContainsIgnoringCase(term, text) ==
    \E i \in 1..(Len(text) - Len(term) + 1) :
        \A k \in 1..Len(term) : LowerChar(text[i + k - 1]) = LowerChar(term[k])

MixedWanted(doc, cont, c) ==
    {n \in 1..Len(doc) :
        /\ IsDescendant(doc, n, cont)
        /\ Matches(doc, n, c.optional_term)
        /\ ContainsIgnoringCase(Chars(c.term), TextOf(doc, n))}

MixedCallReturned ==
    /\ pc = "done"
    /\ TheCall.fn = "web_scrap"
    /\ TheCall.scrap_type = "MIXED"
    /\ TheCall.optional_term # "None"
    /\ result.kind = "return"

\* C8: with the Mixed strategy web_scrap returns exactly the descendants of
\* the chosen container that match the secondary-term selector and whose
\* text contains the term case-insensitively, in source order.
C8_MixedBothConditions ==
    MixedCallReturned =>
        /\ {result.nodes[i] : i \in 1..Len(result.nodes)} = MixedWanted(Soup, container, TheCall)
        /\ \A i, j \in 1..Len(result.nodes) : i < j => result.nodes[i] < result.nodes[j]

\* C8 witness: a Mixed call returns an element whose text matches only
\* when case is ignored, leaving out a descendant that matches the selector
\* alone and one that holds the text alone.
C8_Witness ==
    /\ MixedCallReturned
    /\ result.nodes # <<>>
    /\ ~Contains(Chars(TheCall.term), TextOf(Soup, result.nodes[1]))
    /\ \E n \in 1..Len(Soup) :
          /\ IsDescendant(Soup, n, container)
          /\ Matches(Soup, n, TheCall.optional_term)
          /\ ~ContainsIgnoringCase(Chars(TheCall.term), TextOf(Soup, n))
    /\ \E n \in 1..Len(Soup) :
          /\ IsDescendant(Soup, n, container)
          /\ Soup[n].kind = "Tag"
          /\ ~Matches(Soup, n, TheCall.optional_term)
          /\ Soup[n].parent = container
          /\ ContainsIgnoringCase(Chars(TheCall.term), TextOf(Soup, n))

\* the ways a web_scrap call can fail to resolve
NoContainerAtDeadline == now >= endtime /\ container = 0
InvalidSelectorGiven ==
    /\ container # 0
    /\ \/ TheCall.scrap_type = "CSS_SELECTOR" /\ TheCall.term \notin ValidSelectors
       \/ /\ TheCall.scrap_type = "MIXED"
          /\ TheCall.optional_term \notin ValidSelectors \cup {"None"}
ScriptFailed ==
    container # 0 /\ TheCall.scrap_type = "SCRIPT" /\ result.script = "error"
InvalidParameters ==
    \/ TheCall.scrap_type = "XPATH"
    \/ TheCall.scrap_type = "MIXED" /\ TheCall.optional_term = "None"

SingleFatalFailure ==
    result.kind = "fatal" /\ result.nodes = <<>> /\ result.count = 0

\* C9 as stated: every resolution failure inside web_scrap (no container at
\* the deadline, invalid selector, script error, invalid strategy
\* parameters) ends the call with a single fatal failure and no value.
C9_EveryFailureIsFatal ==
    (pc = "done" /\ TheCall.fn = "web_scrap") =>
        ((NoContainerAtDeadline \/ InvalidSelectorGiven \/ ScriptFailed
            \/ InvalidParameters) => SingleFatalFailure)

\* C9 amended: no container at the deadline, an invalid selector and a
\* script error each end web_scrap with a single fatal failure and no
\* value, with no fall back to another strategy; invalid strategy parameters
\* (Mixed without a secondary term, XPath) are no failure: once a container
\* is found the call returns the empty sequence.
C9_FailuresFatalBadParametersEmpty ==
    (pc = "done" /\ TheCall.fn = "web_scrap") =>
        /\ (NoContainerAtDeadline \/ InvalidSelectorGiven \/ ScriptFailed) =>
              SingleFatalFailure
        /\ (InvalidParameters /\ container # 0) =>
              (result.kind = "return" /\ result.nodes = <<>>)
        /\ result.kind = "fatal" => result.nodes = <<>>

\* C9 witness: an XPath call finds its container, which holds inputs, and
\* returns the empty sequence.
C9_Witness ==
    /\ pc = "done"
    /\ TheCall.fn = "web_scrap"
    /\ TheCall.scrap_type = "XPATH"
    /\ container # 0
    /\ result.kind = "return"
    /\ result.nodes = <<>>
    /\ \E n \in 1..Len(Soup) :
          IsDescendant(Soup, n, container) /\ Soup[n].name = "input"

\* the live element the path of the chosen container leads to
\* (container_element of element_exists), 0 when there is none
LiveContainer == find_element_by_xpath(Doc[page], cpath)

\* the elements of the live page that match the selector of the call and lie
\* inside the chosen container
MatchesInContainer ==
    {n \in 1..Len(Doc[page]) :
        /\ IsDescendant(Doc[page], n, LiveContainer)
        /\ Matches(Doc[page], n, TheCall.term)}

\* C11: with the CssSelector strategy the matches element_exists counts are
\* exactly the descendants of the chosen topmost container that match the
\* selector, so an element matching the selector outside that container
\* never makes element_exists return true.
C11_CssCountsContainerDescendants ==
    (/\ pc = "done"
     /\ TheCall.fn = "element_exists"
     /\ TheCall.scrap_type = "CSS_SELECTOR"
     /\ result.kind = "exists"
     /\ cpath # <<>>
     /\ LiveContainer # 0) =>
        /\ result.count = Cardinality(MatchesInContainer)
        /\ result.flag => MatchesInContainer # {}

\* a call of element_exists is delivered its outcome in this step
ExistsDelivered ==
    /\ pc # "done" /\ pc' = "done"
    /\ Calls[call'].fn = "element_exists"

\* a call of element_exists is entered in this step
ExistsEntered ==
    /\ pc = "idle" /\ call' # 0
    /\ Calls[call'].fn = "element_exists"

\* C12 as stated: every element_exists call, whatever its strategy, runs
\* under the polling controller: its outcome is delivered only with a
\* deadline set, and either a container was found or the deadline has
\* passed; never after a single snapshot in which the container was missing.
C12_EveryExistsPolls ==
    [][ ExistsDelivered =>
            /\ endtime' = Timeout
            /\ (container' # 0 \/ now >= endtime)
      ]_vars

\* C12 amended: only the Text and Mixed strategies of element_exists run
\* under the polling controller (through web_scrap): while no container
\* matches they keep re-capturing the snapshot until one is found or the
\* 60 s deadline passes, and deliver no outcome before the deadline from a
\* snapshot with no container.  The CssSelector and XPath strategies take
\* one snapshot and return false at once when no container matches in it;
\* the Script strategy answers at once without snapshot or container.
C12_OnlyTextAndMixedPoll ==
    [][ /\ ExistsEntered =>
            IF Calls[call'].scrap_type \in {"TEXT", "MIXED"}
            THEN pc' = "poll" /\ endtime' = Timeout /\ now' = 0 /\ container' = 0
            ELSE IF Calls[call'].scrap_type = "SCRIPT"
            THEN pc' = "done" /\ snapshot' = NoSnapshot /\ endtime' = endtime
            ELSE /\ pc' \in {"done", "live"}
                 /\ endtime' = endtime
                 /\ ~HasCandidate(Doc[page], Calls[call']) =>
                        pc' = "done" /\ result' = Existence(FALSE, 0, "")
        /\ (ExistsDelivered /\ pc = "poll") =>
            /\ TheCall.scrap_type \in {"TEXT", "MIXED"}
            /\ now < endtime => HasCandidate(Doc[page], TheCall)
            /\ container' # 0 \/ result'.kind = "fatal"
            /\ ~HasCandidate(Doc[page], TheCall) =>
                  (now >= endtime /\ result'.kind = "fatal")
        /\ (pc = "live" /\ pc' # "live") =>
            /\ TheCall.scrap_type \in {"CSS_SELECTOR", "XPATH"}
            /\ pc' = "done"
            /\ now' = now /\ endtime' = endtime
      ]_vars

\* C12 witness: a CssSelector call of element_exists has returned false from
\* its one snapshot, which held no container, with no deadline ever set.
C12_Witness ==
    /\ pc = "done"
    /\ TheCall.fn = "element_exists"
    /\ TheCall.scrap_type = "CSS_SELECTOR"
    /\ result = Existence(FALSE, 0, "")
    /\ cpath = <<>>
    /\ endtime = 0 /\ now = 0
    /\ ~HasCandidate(Doc[page], TheCall)

\* the text nodes of the chosen container that the label pattern matches
MatchedLabels ==
    {m \in 1..Len(Soup) :
        /\ Soup[m].kind = "NavigableString"
        /\ IsDescendant(Soup, m, container)
        /\ TrailingSpaceLabel(Chars(TheCall.term), Soup[m].string)}

\* the nearest ancestor of m that is a div element, NoneRef when there is none
NearestBlock(doc, m) ==
    LET divs == {a \in 1..Len(doc) :
                    /\ IsDescendant(doc, m, a)
                    /\ doc[a].kind = "Tag"
                    /\ doc[a].name = "div"}
    IN IF divs = {} THEN NoneRef ELSE SetMax(divs)

LaterSiblings(doc, b) ==
    {m \in 1..Len(doc) : m > b /\ doc[m].parent = doc[b].parent}

\* the sibling that comes right after b, when it is an input
ImmediateNextSiblingInput(doc, b) ==
    IF LaterSiblings(doc, b) = {} THEN <<>>
    ELSE IF doc[SetMin(LaterSiblings(doc, b))].name = "input"
         THEN <<SetMin(LaterSiblings(doc, b))>>
         ELSE <<>>

\* the nearest later sibling of b that is an input, other siblings skipped
NearestLaterSiblingInput(doc, b) ==
    LET inputs == {m \in LaterSiblings(doc, b) :
                      doc[m].kind = "Tag" /\ doc[m].name = "input"}
    IN IF inputs = {} THEN <<>> ELSE <<SetMin(inputs)>>

\* for every matched label the climb ends at the nearest div element, or at
\* nothing: never at the text node or at another ancestor
ClimbEndsAtBlock ==
    \A m \in MatchedLabels :
        /\ find_first_div_parent(Soup, m) = NearestBlock(Soup, m)
        /\ find_first_div_parent(Soup, m) # m

LabelCallDone ==
    /\ pc = "done"
    /\ TheCall.fn = "web_scrap"
    /\ TheCall.scrap_type = "TEXT"
    /\ TheCall.label
    /\ container # 0

\* C13 as stated: for every matched label text the climb ends at the nearest
\* div element ancestor or at nothing; the block of the first match in
\* document order is the one used; the result is that block's immediate next
\* sibling when it is an input, else the empty sequence; no tree shape
\* produces an error.
C13_ImmediateNextSiblingInput ==
    LabelCallDone =>
        /\ result.kind = "return"
        /\ ClimbEndsAtBlock
        /\ result.nodes =
              IF MatchedLabels = {} THEN <<>>
              ELSE IF NearestBlock(Soup, SetMin(MatchedLabels)) = NoneRef THEN <<>>
              ELSE ImmediateNextSiblingInput(Soup, NearestBlock(Soup, SetMin(MatchedLabels)))

\* C13 amended: as stated, except that the result is the nearest later
\* sibling of the block that is an input, siblings of other kinds in between
\* being skipped, or the empty sequence when no later sibling is an input.
C13_NearestLaterSiblingInput ==
    LabelCallDone =>
        /\ result.kind = "return"
        /\ ClimbEndsAtBlock
        /\ result.nodes =
              IF MatchedLabels = {} THEN <<>>
              ELSE IF NearestBlock(Soup, SetMin(MatchedLabels)) = NoneRef THEN <<>>
              ELSE NearestLaterSiblingInput(Soup, NearestBlock(Soup, SetMin(MatchedLabels)))

\* C13 witness: several labels match, the first one sits in a label element
\* inside its block, and the input returned comes after a sibling of the
\* block that is no input.
C13_Witness ==
    /\ LabelCallDone
    /\ result.kind = "return"
    /\ Cardinality(MatchedLabels) >= 2
    /\ Len(result.nodes) = 1
    /\ Soup[Soup[SetMin(MatchedLabels)].parent].name = "label"
    /\ result.nodes[1] #
          SetMin(LaterSiblings(Soup, NearestBlock(Soup, SetMin(MatchedLabels))))

(***************************************************************************)
(* The ranking helpers applied to element lists (specification SpecRank).  *)
(***************************************************************************)
\* the shapes of element a list may hold: what its attrs say and what the
\* driver answers for it
ListShapes ==
    {<<"Tag", FALSE, <<>>, "displayed">>,
     <<"Tag", TRUE, StyleZ10, "displayed">>,
     <<"Tag", TRUE, StyleZ10, "hidden">>,
     <<"Tag", TRUE, StyleZ10, "missing">>,
     <<"Tag", TRUE, StyleZ20, "displayed">>,
     <<"Tag", TRUE, StyleZ20, "hidden">>,
     <<"Tag", TRUE, StyleZAuto, "displayed">>,
     <<"Tag", TRUE, StyleZAuto, "hidden">>}

\* further shapes, tried in one-element lists
LoneShapes ==
    {<<"Tag", TRUE, StyleZEmpty, "displayed">>,
     <<"Tag", TRUE, StyleZSpaced, "displayed">>,
     <<"Tag", TRUE, StyleZNeg, "displayed">>,
     <<"Tag", TRUE, StyleZFloat, "displayed">>,
     <<"Tag", TRUE, StyleNoZ, "displayed">>,
     <<"NavigableString", FALSE, <<>>, "displayed">>}

RankLists ==
    UNION {[1..n -> ListShapes] : n \in 0..MaxElems} \cup {<<sh>> : sh \in LoneShapes}

MkList(shapes) ==
    [i \in 1..Len(shapes) |->
        Elem(i, shapes[i][1], shapes[i][2], shapes[i][3], shapes[i][4])]

\* search_zindex(element), on an element of the list at hand
SearchZindex ==
    \E i \in 1..Len(elements) :
        /\ rank_out' = [op |-> "search_zindex", arg |-> <<elements[i]>>,
                        reverse |-> FALSE, err |-> search_zindex(elements[i]).err,
                        val |-> <<>>, z |-> search_zindex(elements[i]).val]
        /\ UNCHANGED <<elements, assertVars, resVars>>

\* zindex_sort(elements, reverse): sorts the list in place and returns it
ZindexSort ==
    \E reverse \in BOOLEAN :
        LET r == zindex_sort(elements, reverse) IN
        /\ rank_out' = [op |-> "zindex_sort", arg |-> elements, reverse |-> reverse,
                        err |-> r.err, val |-> r.val, z |-> 0]
        /\ elements' = r.val
        /\ UNCHANGED <<assertVars, resVars>>

\* filter_displayed_elements(elements, reverse); the default call has reverse=False
FilterDisplayedElements ==
    \E reverse \in BOOLEAN :
        LET r == filter_displayed_elements(elements, reverse) IN
        /\ rank_out' = [op |-> "filter_displayed_elements", arg |-> elements,
                        reverse |-> reverse, err |-> r.err, val |-> r.val, z |-> 0]
        /\ UNCHANGED <<elements, assertVars, resVars>>

InitRank ==
    /\ IdleCore
    /\ elements \in {MkList(l) : l \in RankLists}
    /\ rank_out = NoRank
    /\ errors = <<>>
    /\ verdict = NoVerdict

NextRank == SearchZindex \/ ZindexSort \/ FilterDisplayedElements

SpecRank == InitRank /\ [][NextRank]_vars

(***************************************************************************)
(* Assertion bookkeeping (specification SpecAssert).                       *)
(***************************************************************************)
\* values handed to compare_field_values, as str() gives them
FieldValues == {<<"A">>, <<"A", " ">>, <<" ", "A">>, <<"B">>, <<>>}
Messages == {"Field A1_NOME has different values", "Field A1_COD has different values"}

\* Base.compare_field_values
compare_field_values(errs, user_value, captured_value, message) ==
    IF Strip(user_value) # Strip(captured_value) THEN Append(errs, message) ELSE errs

\* Base.assert_result: whether the unittest assertion at its end passes
assert_result(expected, errs) ==
    LET expected_assert == expected
        flipped == IF errs # <<>> THEN ~expected ELSE expected
    IN  IF expected_assert THEN flipped ELSE ~flipped

CompareFieldValues ==
    \E u \in FieldValues, c \in FieldValues, m \in Messages :
        /\ Len(errors) < MaxErrors
        /\ errors' = compare_field_values(errors, u, c, m)
        /\ UNCHANGED <<verdict, rankVars, resVars>>

\* Base.AssertTrue
AssertTrue ==
    /\ verdict' = [kind |-> "AssertTrue", passed |-> assert_result(TRUE, errors),
                   recorded |-> Len(errors)]
    /\ errors' = <<>>
    /\ UNCHANGED <<rankVars, resVars>>

\* Base.AssertFalse
AssertFalse ==
    /\ verdict' = [kind |-> "AssertFalse", passed |-> assert_result(FALSE, errors),
                   recorded |-> Len(errors)]
    /\ errors' = <<>>
    /\ UNCHANGED <<rankVars, resVars>>

InitAssert ==
    /\ IdleCore
    /\ errors = <<>>
    /\ verdict = NoVerdict
    /\ elements = <<>>
    /\ rank_out = NoRank

NextAssert == CompareFieldValues \/ AssertTrue \/ AssertFalse

SpecAssert == InitAssert /\ [][NextAssert]_vars

\* C10: AssertFalse passes if and only if at least one mismatch was recorded
\* in the error list since the last assertion, AssertTrue passes if and only
\* if none was recorded.
C10_AssertFalseExpectsMismatch ==
    /\ verdict.kind = "AssertFalse" => (verdict.passed <=> verdict.recorded >= 1)
    /\ verdict.kind = "AssertTrue" => (verdict.passed <=> verdict.recorded = 0)

(***************************************************************************)
(* Properties of the ranking helpers.                                      *)
(***************************************************************************)
ZOf(x) == search_zindex(x).val
PosIn(list, x) == CHOOSE k \in 1..Len(list) : list[k].id = x.id
Ids(list) == {list[i].id : i \in 1..Len(list)}

\* out holds the elements of in, by descending z-index, equal z-index in
\* the order of in
StableDescending(in, out) ==
    /\ Len(out) = Len(in)
    /\ Ids(out) = Ids(in)
    /\ \A i \in 1..Len(out) : out[i] = in[PosIn(in, out[i])]
    /\ \A i, j \in 1..Len(out) :
          i < j => \/ ZOf(out[i]) > ZOf(out[j])
                   \/ /\ ZOf(out[i]) = ZOf(out[j])
                      /\ PosIn(in, out[i]) < PosIn(in, out[j])

StableAscending(in, out) ==
    /\ Len(out) = Len(in)
    /\ Ids(out) = Ids(in)
    /\ \A i \in 1..Len(out) : out[i] = in[PosIn(in, out[i])]
    /\ \A i, j \in 1..Len(out) :
          i < j => \/ ZOf(out[i]) < ZOf(out[j])
                   \/ /\ ZOf(out[i]) = ZOf(out[j])
                      /\ PosIn(in, out[i]) < PosIn(in, out[j])

\* the first element of list, in list order, among those of greatest z-index
FirstTopmost(list) ==
    list[CHOOSE k \in 1..Len(list) :
            /\ \A m \in 1..Len(list) : ZOf(list[m]) <= ZOf(list[k])
            /\ \A m \in 1..(k - 1) : ZOf(list[m]) < ZOf(list[k])]

\* the z-index the specification gives an element: N for "z-index:N;",
\* 0 when the style is absent or the value cannot be parsed
ClaimedZ(x) ==
    IF x.kind = "Tag" /\ x.has_style
    THEN CASE x.style = StyleZ10 -> 10
           [] x.style = StyleZ20 -> 20
           [] x.style = StyleZSpaced -> 7
           [] x.style = StyleZNeg -> 0 - 1
           [] OTHER -> 0
    ELSE 0

\* C4: search_zindex returns 0 for an absent or unparsable z-index and N for
\* a well-formed "z-index:N;"; a malformed style never raises an error and
\* never aborts the ranking that calls it.
C4_MalformedStyleIsZero ==
    /\ rank_out.op = "search_zindex" =>
          /\ rank_out.err = ""
          /\ rank_out.z = ClaimedZ(rank_out.arg[1])
    /\ rank_out.op \in {"zindex_sort", "filter_displayed_elements"} =>
          rank_out.err # "ValueError"

\* C5: zindex_sort with reverse=True orders the candidates by descending
\* z-index, candidates of equal z-index keep their original order, the list
\* is sorted in place, and the chosen container (the first of the result) is
\* the first candidate in original order among those of greatest z-index,
\* hidden or not.
C5_RankingStableDescending ==
    (rank_out.op = "zindex_sort" /\ rank_out.reverse /\ rank_out.err = "") =>
        /\ StableDescending(rank_out.arg, rank_out.val)
        /\ elements = rank_out.val
        /\ rank_out.arg # <<>> => rank_out.val[1] = FirstTopmost(rank_out.arg)

\* C5 witness: a ranking of three candidates where the two of greatest
\* z-index tie, come after a lower one, and the chosen one is hidden.
C5_Witness ==
    /\ rank_out.op = "zindex_sort" /\ rank_out.reverse /\ rank_out.err = ""
    /\ Len(rank_out.arg) >= 3
    /\ ZOf(rank_out.arg[1]) < ZOf(rank_out.arg[2])
    /\ ZOf(rank_out.arg[2]) = ZOf(rank_out.arg[3])
    /\ rank_out.val[1] = rank_out.arg[2]
    /\ rank_out.val[1].live = "hidden"
    /\ rank_out.val[2] = rank_out.arg[3]

\* the displayed elements of list, in the order of list
DisplayedOf(list) == SelectSeq(list, LAMBDA x : x.live = "displayed")

\* C6 as stated: the default call filter_displayed_elements(elements)
\* returns exactly the displayed input nodes ranked by z-index descending,
\* ties in their original relative order.
C6_DefaultCallDescending ==
    (/\ rank_out.op = "filter_displayed_elements"
     /\ ~rank_out.reverse
     /\ rank_out.err = "") =>
        StableDescending(DisplayedOf(rank_out.arg), rank_out.val)

\* C6 amended: when filter_displayed_elements returns, the result holds
\* exactly the displayed input nodes (none lost, none duplicated, no hidden
\* one), ranked by z-index ascending for the default call (reverse=False)
\* and descending for reverse=True, ties in their original relative order.
C6_FilterKeepsDisplayedRanked ==
    (rank_out.op = "filter_displayed_elements" /\ rank_out.err = "") =>
        IF rank_out.reverse
        THEN StableDescending(DisplayedOf(rank_out.arg), rank_out.val)
        ELSE StableAscending(DisplayedOf(rank_out.arg), rank_out.val)

\* C6 witness: a default call that drops a hidden node and re-orders two
\* displayed nodes of different z-index.
C6_Witness ==
    /\ rank_out.op = "filter_displayed_elements"
    /\ ~rank_out.reverse
    /\ rank_out.err = ""
    /\ Len(rank_out.arg) = 3
    /\ Len(rank_out.val) = 2
    /\ rank_out.arg[2].live = "hidden"
    /\ rank_out.val[1] = rank_out.arg[3]
    /\ rank_out.val[2] = rank_out.arg[1]
    /\ ZOf(rank_out.val[1]) < ZOf(rank_out.val[2])

====
